---- MODULE Spec2Model ----
(***************************************************************************)
(* Model of bin/send_email.py: one run of send_email(view_id,              *)
(* submission_id, email_with_score) against a Synapse service whose        *)
(* records are fixed for the run and whose calls may each fail.            *)
(***************************************************************************)
EXTENDS Integers, Sequences, FiniteSets, TLC

VARIABLES view_id, submission_id, email_with_score,
          remoteSubmission, remoteAnnotations, remoteEvaluation,
          pc, steps, failedCalls, error, log,
          submission_annotations, ids_to_notify, eval_id, eval_name,
          target_link, subject, body, sent

vars == <<view_id, submission_id, email_with_score,
          remoteSubmission, remoteAnnotations, remoteEvaluation,
          pc, steps, failedCalls, error, log,
          submission_annotations, ids_to_notify, eval_id, eval_name,
          target_link, subject, body, sent>>

----------------------------------------------------------------------------
(* Bounds of the explored inputs *)

\* number of score metrics an annotation mapping may carry
MaxMetrics == 2
\* longest value list of a score annotation
MaxValues == 2

----------------------------------------------------------------------------
(* Python values *)

\* Python's None where a string is expected (dict.get of an absent key)
None == "<None>"

\* Python values whose type decides the behaviour carry their type
Str(s) == [type |-> "str", items |-> <<s>>]
Int_(n) == [type |-> "int", items |-> <<n>>]
List(xs) == [type |-> "list", items |-> xs]
Tuple(xs) == [type |-> "tuple", items |-> xs]
NoneVal == [type |-> "NoneType", items |-> <<>>]

\* the outcome of a call: a returned value or a raised exception
Ret(v) == [raised |-> None, value |-> v]
Raise(kind) == [raised |-> kind, value |-> NoneVal]

\* str(x) as an f-string field renders it
PyStr(x) == IF x = None THEN "None" ELSE x

\* a or b
PyOr(a, b) == IF a = None \/ a = "" THEN b ELSE a

\* a + b on two evaluated operands
PyAdd(a, b) ==
    IF a.raised /= None THEN a
    ELSE IF b.raised /= None THEN b
    ELSE IF a.value.type = "str" /\ b.value.type = "str"
         THEN Ret(Str(a.value.items[1] \o b.value.items[1]))
    ELSE IF a.value.type = "list" /\ b.value.type = "list"
         THEN Ret(List(a.value.items \o b.value.items))
    ELSE Raise("TypeError")

----------------------------------------------------------------------------
(* The inputs: command line and the records of the service *)

SubmissionIds == {"999", "1234"}
ViewIds == {"syn1"}
EmailWithScoreValues == {"yes", "no", "Yes"}
StatusValues == {"VALIDATED", "INVALID", "SCORED"}
TeamIds == {None, "3379097"}
UserIds == {None, "3350396"}

MetricPool == <<"auc", "f1", "mse", "acc">>
MetricKeys == {MetricPool[i] : i \in 1..MaxMetrics}
ScorePool == <<91, 5, 77, 30>>
ValueLists == {[i \in 1..n |-> ScorePool[i]] : n \in 1..MaxValues}

non_score_annotations ==
    {"score_errors", "score_status", "validation_errors", "validation_status"}

EVAL_TO_LINK ==
    ("9615379" :> "https://www.synapse.org/#!Synapse:syn52052735/wiki/626195") @@
    ("9615532" :> "https://www.synapse.org/#!Synapse:syn52052735/wiki/626203") @@
    ("9615534" :> "https://www.synapse.org/#!Synapse:syn52052735/wiki/626211") @@
    ("9615535" :> "https://www.synapse.org/#!Synapse:syn52052735/wiki/626216")

EvalIds == DOMAIN EVAL_TO_LINK \cup {"9614000"}

Submissions ==
    [teamId : TeamIds, userId : UserIds, evaluationId : EvalIds]

\* an evaluation of a registered project and one without contentSource
Evaluations ==
    {[name |-> "RoundA", contentSource |-> "syn123"],
     [name |-> "RoundB", contentSource |-> None]}

\* the submissionAnnotations of a status record: every value is a list
ScoreAnnotations ==
    UNION {[S -> {List(v) : v \in ValueLists}] : S \in SUBSET MetricKeys}

\* the reason is empty unless the validation failed
ReasonOf(status) == IF status = "INVALID" THEN "missing column X" ELSE ""

ValidationAnnotations ==
    {<<>>} \cup
    {("validation_status" :> List(<<s>>)) @@ ("validation_errors" :> List(<<ReasonOf(s)>>)) :
        s \in StatusValues} \cup
    {("validation_errors" :> List(<<"">>))}

ScoringAnnotations ==
    {<<>>, ("score_status" :> List(<<"SCORED">>)) @@ ("score_errors" :> List(<<"">>))}

AnnotationMaps ==
    {v @@ s @@ m : v \in ValidationAnnotations, s \in ScoringAnnotations,
                   m \in ScoreAnnotations}

----------------------------------------------------------------------------
(* The Synapse client: each call returns the record or raises *)

getSubmission(ok) ==
    IF ok THEN Ret(remoteSubmission) ELSE Raise("SynapseHTTPError")

getSubmissionStatus(ok) ==
    IF ok THEN Ret(remoteAnnotations) ELSE Raise("SynapseHTTPError")

getEvaluation(ok) ==
    IF ok THEN Ret(remoteEvaluation) ELSE Raise("SynapseHTTPError")

\* syn.sendMessage(userIds, messageSubject, messageBody): one more delivery
sendMessage(userIds, messageSubject, messageBody) ==
    Append(sent, [userIds |-> userIds, messageSubject |-> messageSubject,
                  messageBody |-> messageBody])

----------------------------------------------------------------------------
(* The functions of send_email.py *)

\* variant: the individual is preferred to the team
get_participant_id_UserFirst(submissionResp) ==
    IF submissionResp.raised /= None THEN submissionResp
    ELSE LET submission == submissionResp.value
             participant_id == PyOr(submission.userId, submission.teamId)
         IN  Ret(<<participant_id>>)

\* submissionResp is the outcome of syn.getSubmission(submission_id)
get_participant_id(submissionResp) ==
    IF submissionResp.raised /= None THEN submissionResp
    ELSE LET submission == submissionResp.value
             participant_id == PyOr(submission.teamId, submission.userId)
         IN  Ret(<<participant_id>>)

\* the lines of the score listing, for the keys MetricPool[i..] of score
RECURSIVE ScoreLines(_, _)
ScoreLines(score, i) ==
    IF i > Len(MetricPool) THEN Ret(<<>>)
    ELSE LET key == MetricPool[i] IN
         IF key \notin DOMAIN score THEN ScoreLines(score, i + 1)
         ELSE IF score[key].type /= "list" THEN Raise("TypeError")
         ELSE IF score[key].items = <<>> THEN Raise("IndexError")
         ELSE LET string == key \o " : " \o ToString(score[key].items[1]) \o "\n"
                  rest == ScoreLines(score, i + 1)
              IN  IF rest.raised /= None THEN rest
                  ELSE Ret(<<string>> \o rest.value)

get_score_dict(score) ==
    LET appended == ScoreLines(score, 1)
    IN  IF appended.raised /= None THEN appended
        ELSE Ret(List(<<"">> \o appended.value))

email_template(status, ews, sid, link, score, reason) ==
    LET validated_yes ==
            PyAdd(PyAdd(Ret(Str("Submission " \o sid
                                \o " has been evaluated with the following scores:\n")),
                        get_score_dict(score)),
                  Ret(Str("\nView all your submissions here: " \o link \o ".")))
        validated_no ==
            Ret(Str("Submission " \o sid \o " has been evaluated. Your score will be available after Challenge submissions are closed. Thank you for participating!"))
        invalid_yes ==
            Ret(Str("Evaluation failed for Submission " \o sid \o "." \o "\n"
                    \o "Reason: '" \o reason \o "'." \o "\n"
                    \o "View your submissions here: " \o link \o "." \o "\n"
                    \o "Please contact the organizers for more information."))
        invalid_no ==
            Ret(Str("Evaluation failed for Submission " \o sid \o "." \o "\n"
                    \o "Reason: '" \o reason \o "'." \o "\n"
                    \o "Please contact the organizers for more information."))
    IN  \* the dict display evaluates its four values in order
        IF validated_yes.raised /= None THEN validated_yes
        ELSE IF validated_no.raised /= None THEN validated_no
        ELSE IF invalid_yes.raised /= None THEN invalid_yes
        ELSE IF invalid_no.raised /= None THEN invalid_no
        ELSE IF status = "VALIDATED" /\ ews = "yes" THEN validated_yes
        ELSE IF status = "VALIDATED" /\ ews = "no" THEN validated_no
        ELSE IF status = "INVALID" /\ ews = "yes" THEN invalid_yes
        ELSE IF status = "INVALID" /\ ews = "no" THEN invalid_no
        ELSE Raise("ValueError")

\* variant: score_status is missing from the excluded keys
get_annotations_KeepsScoreStatus(statusResp) ==
    IF statusResp.raised /= None THEN statusResp
    ELSE LET submission_annotations_ == statusResp.value IN
         IF "validation_status" \notin DOMAIN submission_annotations_
             THEN Raise("TypeError")
         ELSE IF "validation_errors" \notin DOMAIN submission_annotations_
             THEN Raise("TypeError")
         ELSE Ret([status |-> submission_annotations_["validation_status"].items[1],
                   score |-> [key \in DOMAIN submission_annotations_ \
                                  {"score_errors", "validation_errors",
                                   "validation_status"}
                                 |-> submission_annotations_[key]],
                   reason |-> submission_annotations_["validation_errors"].items[1]])

\* statusResp is the outcome of syn.getSubmissionStatus(submission_id)
get_annotations(statusResp) ==
    IF statusResp.raised /= None THEN statusResp
    ELSE LET submission_annotations_ == statusResp.value IN
         IF "validation_status" \notin DOMAIN submission_annotations_
             THEN Raise("TypeError")
         ELSE IF submission_annotations_["validation_status"].items = <<>>
             THEN Raise("IndexError")
         ELSE IF "validation_errors" \notin DOMAIN submission_annotations_
             THEN Raise("TypeError")
         ELSE IF submission_annotations_["validation_errors"].items = <<>>
             THEN Raise("IndexError")
         ELSE LET submission_status ==
                      submission_annotations_["validation_status"].items[1]
                  error_reason ==
                      submission_annotations_["validation_errors"].items[1]
                  submission_scores ==
                      [key \in DOMAIN submission_annotations_ \ non_score_annotations
                          |-> submission_annotations_[key]]
              IN  Ret([status |-> submission_status,
                       score |-> submission_scores,
                       reason |-> error_reason])

\* variant: the except branch returns a pair of Nones
get_evaluation_ReturnsPair(sid, submissionResp, evaluationResp) ==
    IF submissionResp.raised /= None \/ evaluationResp.raised /= None
        THEN [raised |-> None, value |-> Tuple(<<None, None>>),
              printed |-> <<"An error occurred while retrieving the evaluation for submission "
                            \o sid>>]
    ELSE [raised |-> None,
          value |-> Tuple(<<submissionResp.value.evaluationId,
                            evaluationResp.value.name>>),
          printed |-> <<>>]

\* the outcomes of the two calls inside the try block; the second call is
\* made only when the first returned
get_evaluation(sid, submissionResp, evaluationResp) ==
    IF submissionResp.raised /= None
        THEN [raised |-> None, value |-> NoneVal,
              printed |-> <<"An error occurred while retrieving the evaluation for submission "
                            \o sid \o ": " \o submissionResp.raised>>]
    ELSE IF evaluationResp.raised /= None
        THEN [raised |-> None, value |-> NoneVal,
              printed |-> <<"An error occurred while retrieving the evaluation for submission "
                            \o sid \o ": " \o evaluationResp.raised>>]
    ELSE [raised |-> None,
          value |-> Tuple(<<submissionResp.value.evaluationId,
                            evaluationResp.value.name>>),
          printed |-> <<>>]

\* variant: the table is not consulted
get_target_link_NoTable(evalId, evaluationResp) ==
    IF evaluationResp.raised /= None THEN evaluationResp
    ELSE Ret("https://www.synapse.org/#!Synapse:"
             \o PyStr(evaluationResp.value.contentSource))

\* evaluationResp is the outcome of getEvaluation, called on a table miss only
get_target_link(evalId, evaluationResp) ==
    IF evalId \in DOMAIN EVAL_TO_LINK THEN Ret(EVAL_TO_LINK[evalId])
    ELSE IF evaluationResp.raised /= None THEN evaluationResp
    ELSE LET project_id == evaluationResp.value.contentSource
         IN  Ret("https://www.synapse.org/#!Synapse:" \o PyStr(project_id))

\* eval_id, eval_name = <value>
Unpack2(v) ==
    IF v.type = "tuple" /\ Len(v.items) = 2 THEN Ret(v.items)
    ELSE Raise("TypeError")

\* the conditional expression that builds the subject
RenderSubject(status, evalName, sid) ==
    IF status = "VALIDATED"
        THEN "Submission to '" \o PyStr(evalName) \o "' Success: " \o sid
        ELSE "Submission to '" \o PyStr(evalName) \o "' Failed: " \o sid

----------------------------------------------------------------------------
(* One run of send_email *)

Init ==
    /\ view_id \in ViewIds
    /\ submission_id \in SubmissionIds
    /\ email_with_score \in EmailWithScoreValues
    /\ remoteSubmission \in Submissions
    /\ remoteAnnotations \in AnnotationMaps
    /\ remoteEvaluation \in Evaluations
    /\ pc = "get_annotations"
    /\ steps = <<>>
    /\ failedCalls = {}
    /\ error = None
    /\ log = <<>>
    /\ submission_annotations = [status |-> None, score |-> <<>>, reason |-> None]
    /\ ids_to_notify = <<>>
    /\ eval_id = None
    /\ eval_name = None
    /\ target_link = None
    /\ subject = None
    /\ body = None
    /\ sent = <<>>

args == <<view_id, submission_id, email_with_score>>
remote == <<remoteSubmission, remoteAnnotations, remoteEvaluation>>

\* variant: the link is resolved before the evaluation is looked up
StepAfter_LinkFirst(p) ==
    CASE p = "get_annotations" -> "get_participant_id"
      [] p = "get_participant_id" -> "get_target_link"
      [] p = "get_target_link" -> "get_evaluation"
      [] p = "get_evaluation" -> "subject"
      [] p = "subject" -> "body_send"
      [] p = "body_send" -> "done"

\* the statement that follows statement p in the body of send_email
StepAfter(p) ==
    CASE p = "get_annotations" -> "get_participant_id"
      [] p = "get_participant_id" -> "get_evaluation"
      [] p = "get_evaluation" -> "get_target_link"
      [] p = "get_target_link" -> "subject"
      [] p = "subject" -> "body_send"
      [] p = "body_send" -> "done"

\* submission_annotations = get_annotations(syn, submission_id)
GetAnnotationsStep ==
    /\ pc = "get_annotations"
    /\ \E ok \in BOOLEAN :
        LET r == get_annotations(getSubmissionStatus(ok)) IN
        /\ failedCalls' = IF ok THEN failedCalls
                          ELSE failedCalls \cup {"getSubmissionStatus"}
        /\ IF r.raised /= None
              THEN /\ pc' = "failed"
                   /\ error' = r.raised
                   /\ UNCHANGED submission_annotations
              ELSE /\ pc' = StepAfter(pc)
                   /\ submission_annotations' = r.value
                   /\ UNCHANGED error
    /\ steps' = Append(steps, "annotations")
    /\ UNCHANGED <<args, remote, log, ids_to_notify, eval_id, eval_name,
                   target_link, subject, body, sent>>

\* ids_to_notify = get_participant_id(syn, submission_id)
GetParticipantStep ==
    /\ pc = "get_participant_id"
    /\ \E ok \in BOOLEAN :
        LET r == get_participant_id(getSubmission(ok)) IN
        /\ failedCalls' = IF ok THEN failedCalls
                          ELSE failedCalls \cup {"getSubmission@participant"}
        /\ IF r.raised /= None
              THEN /\ pc' = "failed"
                   /\ error' = r.raised
                   /\ UNCHANGED ids_to_notify
              ELSE /\ pc' = StepAfter(pc)
                   /\ ids_to_notify' = r.value
                   /\ UNCHANGED error
    /\ steps' = Append(steps, "participant")
    /\ UNCHANGED <<args, remote, log, submission_annotations, eval_id, eval_name,
                   target_link, subject, body, sent>>

\* eval_id, eval_name = get_evaluation(syn, submission_id)
GetEvaluationStep ==
    /\ pc = "get_evaluation"
    /\ \E subOk \in BOOLEAN, evalOk \in BOOLEAN :
        LET r == get_evaluation(submission_id, getSubmission(subOk),
                                getEvaluation(evalOk))
            u == IF r.raised /= None THEN r ELSE Unpack2(r.value)
        IN
        /\ failedCalls' = failedCalls \cup
                (IF ~subOk THEN {"getSubmission@evaluation"}
                 ELSE IF ~evalOk THEN {"getEvaluation@evaluation"}
                 ELSE {})
        /\ log' = log \o r.printed
        /\ IF u.raised /= None
              THEN /\ pc' = "failed"
                   /\ error' = u.raised
                   /\ UNCHANGED <<eval_id, eval_name>>
              ELSE /\ pc' = StepAfter(pc)
                   /\ eval_id' = u.value[1]
                   /\ eval_name' = u.value[2]
                   /\ UNCHANGED error
    /\ steps' = Append(steps, "evaluation")
    /\ UNCHANGED <<args, remote, submission_annotations, ids_to_notify,
                   target_link, subject, body, sent>>

\* target_link = get_target_link(syn, eval_id)
GetTargetLinkStep ==
    /\ pc = "get_target_link"
    /\ \E ok \in BOOLEAN :
        LET r == get_target_link(eval_id, getEvaluation(ok)) IN
        /\ failedCalls' = IF ok \/ eval_id \in DOMAIN EVAL_TO_LINK THEN failedCalls
                          ELSE failedCalls \cup {"getEvaluation@link"}
        /\ IF r.raised /= None
              THEN /\ pc' = "failed"
                   /\ error' = r.raised
                   /\ UNCHANGED target_link
              ELSE /\ pc' = StepAfter(pc)
                   /\ target_link' = r.value
                   /\ UNCHANGED error
    /\ steps' = Append(steps, "link")
    /\ UNCHANGED <<args, remote, log, submission_annotations, ids_to_notify,
                   eval_id, eval_name, subject, body, sent>>

\* subject = ... if submission_annotations.status == "VALIDATED" else ...
RenderSubjectStep ==
    /\ pc = "subject"
    /\ subject' = RenderSubject(submission_annotations.status, eval_name,
                                submission_id)
    /\ pc' = StepAfter(pc)
    /\ steps' = Append(steps, "subject")
    /\ UNCHANGED <<args, remote, failedCalls, error, log, submission_annotations,
                   ids_to_notify, eval_id, eval_name, target_link, body, sent>>

\* variant: the exception of email_template is swallowed and the message is
\* sent with the body left unset
RenderBodyAndSend_SendAnyway ==
    /\ pc = "body_send"
    /\ \E ok \in BOOLEAN :
        LET r == email_template(submission_annotations.status, email_with_score,
                                submission_id, target_link,
                                submission_annotations.score,
                                submission_annotations.reason)
        IN
        /\ body' = IF r.raised /= None THEN body ELSE r.value.items[1]
        /\ sent' = sendMessage(ids_to_notify, subject, body')
        /\ steps' = steps \o <<"body", "send">>
        /\ pc' = IF ok /\ r.raised = None THEN "done" ELSE "failed"
        /\ error' = IF r.raised /= None THEN r.raised
                    ELSE IF ok THEN error ELSE "SynapseHTTPError"
        /\ failedCalls' = IF ok THEN failedCalls
                          ELSE failedCalls \cup {"sendMessage"}
    /\ UNCHANGED <<args, remote, log, submission_annotations, ids_to_notify,
                   eval_id, eval_name, target_link, subject>>

\* body = email_template(...) and then syn.sendMessage(...): the message is
\* sent when email_template returned, and the send itself may fail
RenderBodyAndSend ==
    /\ pc = "body_send"
    /\ \E ok \in BOOLEAN :
        LET r == email_template(submission_annotations.status, email_with_score,
                                submission_id, target_link,
                                submission_annotations.score,
                                submission_annotations.reason)
        IN
        IF r.raised /= None
           THEN /\ pc' = "failed"
                /\ error' = r.raised
                /\ steps' = Append(steps, "body")
                /\ UNCHANGED <<body, sent, failedCalls>>
           ELSE /\ body' = r.value.items[1]
                /\ sent' = sendMessage(ids_to_notify, subject, body')
                /\ steps' = steps \o <<"body", "send">>
                /\ pc' = IF ok THEN StepAfter(pc) ELSE "failed"
                /\ error' = IF ok THEN error ELSE "SynapseHTTPError"
                /\ failedCalls' = IF ok THEN failedCalls
                                  ELSE failedCalls \cup {"sendMessage"}
    /\ UNCHANGED <<args, remote, log, submission_annotations, ids_to_notify,
                   eval_id, eval_name, target_link, subject>>

Next ==
    \/ GetAnnotationsStep
    \/ GetParticipantStep
    \/ GetEvaluationStep
    \/ GetTargetLinkStep
    \/ RenderSubjectStep
    \/ RenderBodyAndSend

Spec == Init /\ [][Next]_vars

----------------------------------------------------------------------------
(* Vocabulary of the properties *)

Did(step) == \E i \in 1..Len(steps) : steps[i] = step
Ended == pc \in {"done", "failed"}
IsPrefix(a, b) == Len(a) <= Len(b) /\ \A i \in 1..Len(a) : a[i] = b[i]

HasValidation ==
    {"validation_status", "validation_errors"} \subseteq DOMAIN remoteAnnotations
ResolvedStatus == remoteAnnotations["validation_status"].items[1]
ValidPair ==
    /\ HasValidation
    /\ ResolvedStatus \in {"VALIDATED", "INVALID"}
    /\ email_with_score \in {"yes", "no"}

\* the participant of the submission record: the team if any, else the user
ExpectedParticipant ==
    IF remoteSubmission.teamId /= None THEN remoteSubmission.teamId
    ELSE remoteSubmission.userId

\* "<metric> : <value>" lines of the metrics MetricPool[i..] of the record
RECURSIVE ScoreListing(_)
ScoreListing(i) ==
    IF i > Len(MetricPool) THEN ""
    ELSE IF MetricPool[i] \in DOMAIN remoteAnnotations
         THEN MetricPool[i] \o " : "
                \o ToString(remoteAnnotations[MetricPool[i]].items[1]) \o "\n"
                \o ScoreListing(i + 1)
         ELSE ScoreListing(i + 1)

\* the body each of the four templates is written to produce
FixedBody ==
    LET reason == remoteAnnotations["validation_errors"].items[1] IN
    CASE ResolvedStatus = "VALIDATED" /\ email_with_score = "yes" ->
            "Submission " \o submission_id
            \o " has been evaluated with the following scores:\n"
            \o ScoreListing(1)
            \o "\nView all your submissions here: " \o target_link \o "."
      [] ResolvedStatus = "VALIDATED" /\ email_with_score = "no" ->
            "Submission " \o submission_id \o " has been evaluated. Your score will be available after Challenge submissions are closed. Thank you for participating!"
      [] ResolvedStatus = "INVALID" /\ email_with_score = "yes" ->
            "Evaluation failed for Submission " \o submission_id \o ".\nReason: '"
            \o reason \o "'.\nView your submissions here: " \o target_link
            \o ".\nPlease contact the organizers for more information."
      [] ResolvedStatus = "INVALID" /\ email_with_score = "no" ->
            "Evaluation failed for Submission " \o submission_id \o ".\nReason: '"
            \o reason \o "'.\nPlease contact the organizers for more information."

ExpectedSubject ==
    IF ResolvedStatus = "VALIDATED"
        THEN "Submission to '" \o remoteEvaluation.name \o "' Success: " \o submission_id
        ELSE "Submission to '" \o remoteEvaluation.name \o "' Failed: " \o submission_id

----------------------------------------------------------------------------
(* The properties *)

\* C1: a run in which every lookup succeeds, the status is VALIDATED or
\* INVALID and email_with_score is "yes" or "no" ends having called
\* sendMessage exactly once, with the participant list of the submission.
C1_ExactlyOneDelivery ==
    (Ended /\ failedCalls = {} /\ ValidPair)
        => (Len(sent) = 1 /\ sent[1].userIds = <<ExpectedParticipant>>)

\* C2: sendMessage is never called more than once, and a run that failed
\* anywhere before the send has called it zero times.
C2_NoDeliveryAfterFailure ==
    /\ Len(sent) <= 1
    /\ (error /= None /\ "sendMessage" \notin failedCalls) => sent = <<>>

C2_Witness ==
    /\ pc = "failed"
    /\ error = "SynapseHTTPError"
    /\ "getEvaluation@link" \in failedCalls
    /\ sent = <<>>

\* C3: for each of the four valid (status, email_with_score) pairs,
\* email_template does not fail and returns the fixed body of the pair.
C3_RenderReturnsFixedBody ==
    (Did("body") /\ ValidPair) => (error /= "TypeError" /\ body = FixedBody)

\* C4: for a (status, email_with_score) pair outside the four valid ones,
\* email_template produces no body and fails with ValueError and nothing else.
C4_InvalidPairRaisesValueError ==
    (Did("body") /\ ~ValidPair) => (error = "ValueError" /\ body = None)

\* C5: get_participant_id returns a list of exactly one element: the teamId
\* when the submission has teamId and userId, the userId when it has only
\* userId, None when it has neither; it does not fail once the submission
\* was fetched.
C5_SingleParticipant ==
    (Did("participant") /\ "getSubmission@participant" \notin failedCalls)
        => /\ Len(ids_to_notify) = 1
           /\ ~(pc = "failed" /\ steps[Len(steps)] = "participant")
           /\ (remoteSubmission.teamId /= None /\ remoteSubmission.userId /= None)
                => ids_to_notify[1] = remoteSubmission.teamId
           /\ (remoteSubmission.teamId = None /\ remoteSubmission.userId /= None)
                => ids_to_notify[1] = remoteSubmission.userId
           /\ (remoteSubmission.teamId = None /\ remoteSubmission.userId = None)
                => ids_to_notify[1] = None

C5_Witness ==
    /\ Did("participant")
    /\ remoteSubmission.teamId /= None
    /\ remoteSubmission.userId /= None
    /\ ids_to_notify = <<remoteSubmission.teamId>>

\* C6: get_target_link returns the table's URL for each of the four table
\* keys, the URL built from the fetched contentSource for every other id,
\* and never a table URL for an id outside the table.
C6_TargetLink ==
    Did("link") =>
        /\ eval_id = "9615379" =>
             target_link = "https://www.synapse.org/#!Synapse:syn52052735/wiki/626195"
        /\ eval_id = "9615532" =>
             target_link = "https://www.synapse.org/#!Synapse:syn52052735/wiki/626203"
        /\ eval_id = "9615534" =>
             target_link = "https://www.synapse.org/#!Synapse:syn52052735/wiki/626211"
        /\ eval_id = "9615535" =>
             target_link = "https://www.synapse.org/#!Synapse:syn52052735/wiki/626216"
        /\ (/\ eval_id \notin {"9615379", "9615532", "9615534", "9615535"}
            /\ "getEvaluation@link" \notin failedCalls
            /\ remoteEvaluation.contentSource /= None)
             => target_link = "https://www.synapse.org/#!Synapse:"
                                \o remoteEvaluation.contentSource
        /\ (\E k \in DOMAIN EVAL_TO_LINK : target_link = EVAL_TO_LINK[k])
             => eval_id \in {"9615379", "9615532", "9615534", "9615535"}

C6_Witness ==
    /\ Did("link")
    /\ eval_id = "9614000"
    /\ target_link = "https://www.synapse.org/#!Synapse:syn123"

\* C7 as stated: the score mapping has as keys the annotation keys other than
\* the four reserved ones and maps each to the first element of its list.
C7_ScoresAreFirstElements ==
    (Did("annotations") /\ HasValidation /\ "getSubmissionStatus" \notin failedCalls)
        => /\ DOMAIN submission_annotations.score =
                DOMAIN remoteAnnotations \ {"score_errors", "score_status",
                                            "validation_errors", "validation_status"}
           /\ \A key \in DOMAIN submission_annotations.score :
                submission_annotations.score[key] =
                    Int_(remoteAnnotations[key].items[1])

\* C7 amended: the score mapping has as keys the annotation keys other than
\* the four reserved ones and maps each to the whole value list of that
\* annotation; status and reason are the first elements of validation_status
\* and validation_errors.
C7_ScoresAreValueLists ==
    (Did("annotations") /\ HasValidation /\ "getSubmissionStatus" \notin failedCalls)
        => /\ DOMAIN submission_annotations.score =
                DOMAIN remoteAnnotations \ {"score_errors", "score_status",
                                            "validation_errors", "validation_status"}
           /\ \A key \in DOMAIN submission_annotations.score :
                submission_annotations.score[key] = remoteAnnotations[key]
           /\ submission_annotations.status =
                remoteAnnotations["validation_status"].items[1]
           /\ submission_annotations.reason =
                remoteAnnotations["validation_errors"].items[1]

C7_Witness ==
    /\ Did("annotations")
    /\ "score_status" \in DOMAIN remoteAnnotations
    /\ DOMAIN submission_annotations.score = MetricKeys
    /\ \E key \in MetricKeys : Len(submission_annotations.score[key].items) > 1

C9_ParticipantFirstOrder ==
    IsPrefix(steps, <<"participant", "annotations", "evaluation", "link",
                      "subject", "body", "send">>)

\* C9 amended: the steps run strictly in the order annotations, participant,
\* evaluation, link, rendering (subject, body), send.
C9_AnnotationsFirstOrder ==
    IsPrefix(steps, <<"annotations", "participant", "evaluation", "link",
                      "subject", "body", "send">>)

C9_Witness ==
    steps = <<"annotations", "participant", "evaluation", "link", "subject", "body">>

====
